---- MODULE Spec2Model ----
(***************************************************************************)
(* Model of the G-code sample generator: GCodeSampleGenerator (main.py)    *)
(* and SeqGenerator (sequence.py).                                         *)
(*                                                                         *)
(* Conventions.  A program line is a sequence of words; a word is a record *)
(* [c |-> address letter or keyword, v |-> integer value].  Lengths,       *)
(* speeds and feeds (X Y Z I J F S, sizes, radii) are in hundredths, so    *)
(* "Z3.0" is [c |-> "Z", v |-> 300]; G, M, T and N values are the plain    *)
(* integers.  Surface speeds are in whole units, feeds per tooth in        *)
(* 1/10000, diameters in 1/1000.                                           *)
(*                                                                         *)
(* The module-level random generator is the variable stream: every value   *)
(* drawn is recorded there in draw order, and a run started with a cursor  *)
(* below the end of the stream receives the recorded values again.         *)
(***************************************************************************)
EXTENDS Integers, Sequences, FiniteSets, TLC

VARIABLES
    catalog,              \* all_tools: the loaded catalog, code -> tool record
    now,                  \* the wall clock, in seconds
    pc,                   \* position of the run inside __init__
    err,                  \* the exception that ended the run, or "none"
    fileid, partnum, machineid, revisiondate, revisiontime, controlleros,
    tcodes,               \* self.tcodes: the selected codes in dict order
    number_of_sequences,
    seqno_tools, seq_gcode, seqno,   \* locals of _generate_sequences
    gcode,                \* self.gcode: the assembled program
    stream, cursor,       \* the random generator: values drawn, position
    run, first,           \* run number, and the program of the first run
    seqgen,               \* a SeqGenerator built on its own: tcodeid, tcode_params
    motion                \* what its generate_random_motion returned

vars == <<catalog, now, pc, err, fileid, partnum, machineid, revisiondate,
          revisiontime, controlleros, tcodes, number_of_sequences,
          seqno_tools, seq_gcode, seqno, gcode, stream, cursor, run, first,
          seqgen, motion>>

---------------------------------------------------------------------------
(* Bounds of the model *)

MaxCatalog == 3
MaxSeqs == 3
MaxElapsed == 1
UniformSteps == 2

---------------------------------------------------------------------------
(* Program constants *)

ExtraMax == 5
SizeMin == 5
SizeMax == 20
KMax == 5
APPROACH == 100
RETRACT == 25
SafeZ == 300
DayLen == 86400
StartTime == DayLen - 1

Min(a, b) == IF a <= b THEN a ELSE b

W(c, v) == [c |-> c, v |-> v]

\* Python's round(p / q, 2) on a value held in hundredths: nearest integer
\* to p / q, ties to the even neighbour.
Round(p, q) ==
    LET f == p \div q
        r == p % q
    IN  IF 2 * r < q THEN f
        ELSE IF 2 * r > q THEN f + 1
        ELSE IF f % 2 = 0 THEN f ELSE f + 1

---------------------------------------------------------------------------
(* The tool catalog (data/cuttingtools/sample_tools.json, as produced by   *)
(* tcode_generator): tool codes are 100001, 100002, ...                    *)

Codes == 100001 .. (100000 + MaxCatalog)

\* One generated tool; only the fields the generator reads are kept.
\* 100001 is the tool of the spec's example scenario.
generate_random_tool(code) ==
    IF code = 100001
    THEN [diameter |-> 500,
          sfm |-> [min |-> 100, max |-> 100],
          ipt |-> [min |-> 100, max |-> 100],
          cutcom |-> FALSE]
    ELSE IF code % 2 = 0
    THEN [diameter |-> 250,
          sfm |-> [min |-> 200, max |-> 200],
          ipt |-> [min |-> 50, max |-> 50],
          cutcom |-> TRUE]
    ELSE [diameter |-> 750,
          sfm |-> [min |-> 350, max |-> 1000],
          ipt |-> [min |-> 25, max |-> 25],
          cutcom |-> FALSE]

\* The catalogs a run may load: the first n generated tools, n = 0, 1, ...
Catalogs == {[c \in 100001..(100000 + n) |-> generate_random_tool(c)] : n \in 0..MaxCatalog}

\* list(d.keys()): the keys of a loaded catalog in file order (ascending).
RECURSIVE KeysFrom(_, _)
KeysFrom(cat, c) ==
    IF c > 100000 + MaxCatalog THEN <<>>
    ELSE (IF c \in DOMAIN cat THEN <<c>> ELSE <<>>) \o KeysFrom(cat, c + 1)

Keys(cat) == KeysFrom(cat, 100001)

---------------------------------------------------------------------------
(* The random generator *)

\* The values vs are what the generator yields next.
Agrees(vs) ==
    \A i \in 1..Len(vs) : cursor + i <= Len(stream) => stream[cursor + i].v = vs[i]

Drawn(sites, vs) == [i \in 1..Len(vs) |-> [site |-> sites[i], v |-> vs[i]]]

\* The generator yields vs at the call sites named, and advances.
Consume(sites, vs) ==
    /\ Agrees(vs)
    /\ cursor' = cursor + Len(vs)
    /\ stream' = SubSeq(stream, 1, cursor) \o Drawn(sites, vs)
                    \o SubSeq(stream, cursor + Len(vs) + 1, Len(stream))

\* Values the model lets each draw return (subsets of the code's ranges).
FileIdDraws == {1000000}
First3Draws == {100}
LetterDraws == {0}
Last4Draws == {1000}
DashDraws == {1}
MachineDraws == {1}
ControllerList == <<"grbl">>
WeightedMin == 2
WeightedMax == 20
NumKeysDraws == {WeightedMin, WeightedMax}
ExtraDraws == {0, ExtraMax}
SizeDraws == {SizeMax}
KDraws == {KMax}
CutcomList == <<0, 41, 42>>
Uniform(range) == {range.min, range.max}

\* random.uniform(a, b) = a + (b - a) * random.random(), the fraction taken
\* on a grid of UniformSteps steps.
UniformFine_FromZero(range) ==
    {(range.max * i) \div UniformSteps : i \in 0..UniformSteps}

UniformFine(range) ==
    {range.min + ((range.max - range.min) * i) \div UniformSteps : i \in 0..UniformSteps}

\* random.sample(population, k) for a small population: k indices js, the
\* i-th below the remaining pool size; the picked slot is refilled from the
\* end of the pool.
RECURSIVE Sample(_, _)
Sample(pool, js) ==
    IF js = <<>> THEN <<>>
    ELSE LET n == Len(pool)
             j == Head(js) + 1
             rest == [i \in 1..(n - 1) |-> IF i = j THEN pool[n] ELSE pool[i]]
         IN  <<pool[j]>> \o Sample(rest, Tail(js))

SampleDraws(n, k) == {js \in [1..k -> 0..(n - 1)] : \A i \in 1..k : js[i] <= n - i}

---------------------------------------------------------------------------
(* Clock formatting *)

\* strftime("%m-%d-%Y"): the calendar day, one word.
FormatDate(t) == <<W("day", t \div DayLen)>>

\* strftime("%I:%M:%S%p").lower(): 12-hour clock, minutes, seconds, am/pm.
FormatTime(t) ==
    LET s == t % DayLen
        h == s \div 3600
    IN  <<W("I", IF h % 12 = 0 THEN 12 ELSE h % 12),
          W("M", (s % 3600) \div 60),
          W("S", s % 60),
          W(IF h >= 12 THEN "pm" ELSE "am", 0)>>

---------------------------------------------------------------------------
(* State after loading, before __init__ runs *)

Fresh ==
    /\ pc = "init"
    /\ err = "none"
    /\ fileid = 0
    /\ partnum = <<>>
    /\ machineid = 0
    /\ revisiondate = <<>>
    /\ revisiontime = <<>>
    /\ controlleros = ""
    /\ tcodes = <<>>
    /\ number_of_sequences = 0
    /\ seqno_tools = <<>>
    /\ seq_gcode = <<>>
    /\ seqno = 0
    /\ gcode = <<>>

Init ==
    /\ catalog \in Catalogs
    /\ now = StartTime
    /\ Fresh
    /\ stream = <<>>
    /\ cursor = 0
    /\ run = 1
    /\ first = <<>>
    /\ seqgen = <<>>
    /\ motion = <<>>

\* _get_partnum: f"{first_3_nums}{middle_letter}{last_4_nums}-{dash_num}"
FormatPartnum(f3, letter, l4, dash) ==
    <<W("num", f3), W("letter", letter), W("num", l4), W("-", dash)>>

\* __init__, lines 25-31: identifiers, revision stamp, controller.
Construct ==
    /\ pc = "init"
    /\ \E fid \in FileIdDraws, f3 \in First3Draws, letter \in LetterDraws,
          l4 \in Last4Draws, dash \in DashDraws, mid \in MachineDraws,
          os \in 1..Len(ControllerList) :
          /\ Consume(<<"fileid", "first_3_nums", "middle_letter", "last_4_nums",
                       "dash_num", "machineid", "controlleros">>,
                     <<fid, f3, letter, l4, dash, mid, os - 1>>)
          /\ fileid' = fid
          /\ partnum' = FormatPartnum(f3, letter, l4, dash)
          /\ machineid' = mid
          /\ controlleros' = ControllerList[os]
    /\ revisiondate' = FormatDate(now)
    /\ revisiontime' = FormatTime(now)
    /\ pc' = "tcodes"
    /\ UNCHANGED <<seqgen, motion, catalog, now, err, tcodes, number_of_sequences, seqno_tools,
                   seq_gcode, seqno, gcode, run, first>>

\* num_keys = min(random.choice(weighted_choices), len(all_tools))
NumKeys_Unclamped(d, cat) == Cardinality(DOMAIN cat)

NumKeys(d, cat) == Min(d, Cardinality(DOMAIN cat))

\* {key: all_tools[key] for key in keys}: an ordered mapping, held as the
\* sequence of its items.
SubsetOf(cat, keys) == [i \in 1..Len(keys) |-> [key |-> keys[i], rec |-> cat[keys[i]]]]

KeysOf(t) == [i \in 1..Len(t) |-> t[i].key]

Lookup(t, key) == t[CHOOSE i \in 1..Len(t) : t[i].key = key].rec

\* _get_tcodes
GetTcodes ==
    /\ pc = "tcodes"
    /\ \E d \in NumKeysDraws :
          \E js \in SampleDraws(Cardinality(DOMAIN catalog), NumKeys(d, catalog)) :
             /\ Consume(<<"num_keys">> \o [i \in 1..Len(js) |-> "sample"],
                        <<d>> \o js)
             /\ tcodes' = SubsetOf(catalog, Sample(Keys(catalog), js))
    /\ pc' = "nseq"
    /\ UNCHANGED <<seqgen, motion, catalog, now, err, fileid, partnum, machineid, revisiondate,
                   revisiontime, controlleros, number_of_sequences, seqno_tools,
                   seq_gcode, seqno, gcode, run, first>>

\* _get_number_of_sequences: random.randint(len(self.tcodes), max_sequences)
SequenceCounts_FromZero(n, extra) == 0 .. (n + extra)

SequenceCounts(n, extra) == n .. (n + extra)

GetNumberOfSequences ==
    /\ pc = "nseq"
    /\ \E extra \in ExtraDraws :
          \E count \in SequenceCounts(Len(tcodes), extra) :
             /\ Consume(<<"max_sequences", "number_of_sequences">>, <<extra, count>>)
             /\ number_of_sequences' = count
    /\ pc' = "plan"
    /\ UNCHANGED <<seqgen, motion, catalog, now, err, fileid, partnum, machineid, revisiondate,
                   revisiontime, controlleros, tcodes, seqno_tools, seq_gcode,
                   seqno, gcode, run, first>>

---------------------------------------------------------------------------
(* SeqGenerator *)

\* _calc_random_rpm: round(sfm * 3.82 / diameter, 2)
calc_random_rpm(tool, sfm) == Round(sfm * 382 * 1000, tool.diameter)

\* _calc_random_feedrate: round(ipt * rpm, 2)
calc_random_feedrate(ipt, rpm) == Round(ipt * rpm, 10000)

\* _cutter_compensation draws an index into [None, "G41", "G42"] when the
\* tool's cutcom flag is set, and draws nothing otherwise.
CutcomDraws_Ungated(tool) == {<<i>> : i \in 0..(Len(CutcomList) - 1)}

CutcomDraws(tool) ==
    IF tool.cutcom THEN {<<i>> : i \in 0..(Len(CutcomList) - 1)} ELSE {<<>>}

\* Its result: 0 stands for None, 41 and 42 for "G41" and "G42".
cutter_compensation(cc) == IF Len(cc) = 0 THEN 0 ELSE CutcomList[cc[1] + 1]

\* The optional lines around the contour.
CompOn(cutcom) == IF cutcom # 0 THEN <<(<<W("G", cutcom)>>)>> ELSE <<>>

CompOff_Always(cutcom) == <<(<<W("G", 40)>>)>>

CompOff(cutcom) == IF cutcom # 0 THEN <<(<<W("G", 40)>>)>> ELSE <<>>

\* round(feedrate * 1 / random.randint(1, 5), 2)
PlungeFeed(feedrate, k) == Round(feedrate, k)

\* corner_radius = size / 5
CornerRadius(size) == size * 20

ArcSize_Floor(size) == (size \div 2) * 100

\* arc_size = size / 2
ArcSize(size) == size * 50

\* _square
Square(tcodeid, size, cutcom, rpm, feedrate, k) ==
    LET s == size * 100
        r == CornerRadius(size)
    IN  << <<W("(@@", 0), W("seq_name", 0), W("Draw Square", 0), W("Size", s),
             W("Corners", r)>>,
           <<W("T", tcodeid), W("M", 6)>>,
           <<W("S", rpm), W("M", 3)>>,
           <<W("G", 0), W("X", 0), W("Y", -(APPROACH + r)), W("Z", SafeZ)>>,
           <<W("G", 0), W("Z", 10)>>,
           <<W("G", 1), W("Z", 0), W("F", PlungeFeed(feedrate, k))>> >>
        \o CompOn(cutcom)
        \o << <<W("G", 1), W("Y", -r)>>,
              <<W("G", 2), W("X", r), W("Y", 0), W("I", r), W("J", 0)>>,
              <<W("G", 1), W("X", s - r), W("Y", 0), W("F", feedrate)>>,
              <<W("G", 3), W("X", s), W("Y", r), W("I", 0), W("J", r)>>,
              <<W("G", 1), W("X", s), W("Y", s - r)>>,
              <<W("G", 3), W("X", s - r), W("Y", s), W("I", -r), W("J", 0)>>,
              <<W("G", 1), W("X", r), W("Y", s)>>,
              <<W("G", 3), W("X", 0), W("Y", s - r), W("I", 0), W("J", -r)>>,
              <<W("G", 1), W("X", 0), W("Y", r)>>,
              <<W("G", 3), W("X", r), W("Y", 0), W("I", r), W("J", 0)>>,
              <<W("G", 2), W("X", r + RETRACT), W("Y", -RETRACT), W("I", 0),
                W("J", -RETRACT)>> >>
        \o CompOff(cutcom)
        \o << <<W("G", 0), W("Z", SafeZ)>> >>

\* _oval
Oval(tcodeid, size, cutcom, rpm, feedrate, k) ==
    LET s == size * 100
        a == ArcSize(size)
    IN  << <<W("(@@", 0), W("seq_name", 0), W("Draw Oval", 0), W("Size", s),
             W("Arcsize", a)>>,
           <<W("T", tcodeid), W("M", 6)>>,
           <<W("S", rpm), W("M", 3)>>,
           <<W("G", 0), W("X", -100), W("Y", -200), W("Z", SafeZ)>>,
           <<W("G", 0), W("Z", 10)>>,
           <<W("G", 1), W("Z", 0), W("F", PlungeFeed(feedrate, k))>> >>
        \o CompOn(cutcom)
        \o << <<W("G", 1), W("Y", -100)>>,
              <<W("G", 2), W("X", 0), W("Y", 0), W("I", 100), W("J", 0)>>,
              <<W("G", 3), W("X", a), W("Y", a), W("I", 0), W("J", a),
                W("F", feedrate)>>,
              <<W("G", 1), W("Y", a + 100)>>,
              <<W("G", 3), W("X", 0), W("Y", s + 100), W("I", -a), W("J", 0)>>,
              <<W("G", 3), W("X", -a), W("Y", a + 100), W("I", 0), W("J", -a)>>,
              <<W("G", 1), W("Y", a)>>,
              <<W("G", 3), W("X", 0), W("Y", 0), W("I", a), W("J", 0)>>,
              <<W("G", 2), W("X", RETRACT), W("Y", -RETRACT), W("I", 0),
                W("J", -RETRACT)>> >>
        \o CompOff(cutcom)
        \o << <<W("G", 0), W("Z", SafeZ)>> >>

\* _triangle: prints and returns "", which extends a list by nothing.
Triangle(tcodeid, size, cutcom, rpm, feedrate, k) == <<>>

MotionList_WithTriangle == <<"square", "oval", "triangle">>

\* random.choice([self._square, self._oval])
MotionList == <<"square", "oval">>

generate_random_motion_NoToolCode(tcodeid, tool, sfm, ipt, shape, size, cc, k) ==
    LET rpm == calc_random_rpm(tool, sfm)
        feedrate == calc_random_feedrate(ipt, rpm)
        cutcom == cutter_compensation(cc)
    IN  IF MotionList[shape + 1] = "square"
        THEN Square(0, size, cutcom, rpm, feedrate, k)
        ELSE Oval(0, size, cutcom, rpm, feedrate, k)

\* generate_random_motion, given the values its draws returned.
generate_random_motion(tcodeid, tool, sfm, ipt, shape, size, cc, k) ==
    LET rpm == calc_random_rpm(tool, sfm)
        feedrate == calc_random_feedrate(ipt, rpm)
        cutcom == cutter_compensation(cc)
    IN  IF MotionList[shape + 1] = "square"
        THEN Square(tcodeid, size, cutcom, rpm, feedrate, k)
        ELSE IF MotionList[shape + 1] = "oval"
        THEN Oval(tcodeid, size, cutcom, rpm, feedrate, k)
        ELSE Triangle(tcodeid, size, cutcom, rpm, feedrate, k)

MotionSites_ParametersFirst(cc) ==
    <<"sfm", "ipt", "size">> \o [i \in 1..Len(cc) |-> "cutcom"] \o <<"motion", "k">>

\* The call sites of its draws, in the order the calls are made: lines 208,
\* 209, 210, then the arguments of line 211-212, then line 117 or 170
\* inside the shape method.
MotionSites(cc) ==
    <<"sfm", "ipt", "motion", "size">> \o [i \in 1..Len(cc) |-> "cutcom"] \o <<"k">>

MotionValues(sfm, ipt, shape, size, cc, k) == <<sfm, ipt, shape, size>> \o cc \o <<k>>

---------------------------------------------------------------------------
(* _generate_sequences *)

SeqStart(n) == <<W("(@@", 0), W("seq_start", n)>>

SeqEnd(n) == <<W("(@@", 0), W("seq_end", n)>>

\* line 205: seqno_tools = list(self.tcodes.keys())
PlannedFirst_Nothing(t) == <<>>

PlannedFirst_Reversed(t) == [i \in 1..Len(t) |-> KeysOf(t)[Len(t) + 1 - i]]

PlannedFirst(t) == KeysOf(t)

StartSequences ==
    /\ pc = "plan"
    /\ number_of_sequences <= MaxSeqs
    /\ seqno_tools' = PlannedFirst(tcodes)
    /\ seq_gcode' = <<>>
    /\ seqno' = 1
    /\ pc' = "sequences"
    /\ UNCHANGED <<seqgen, motion, catalog, now, err, fileid, partnum, machineid, revisiondate,
                   revisiontime, controlleros, tcodes, number_of_sequences,
                   gcode, stream, cursor, run, first>>

\* lines 208-209: one pass of the while loop; random.choice of an empty
\* list raises IndexError.
FillTool ==
    /\ pc = "sequences"
    /\ Len(seqno_tools) < number_of_sequences
    /\ IF tcodes = <<>>
       THEN /\ err' = "IndexError"
            /\ pc' = "crashed"
            /\ UNCHANGED <<seqno_tools, stream, cursor>>
       ELSE /\ \E i \in 1..Len(tcodes) :
                  /\ Consume(<<"seqno_tool">>, <<i - 1>>)
                  /\ seqno_tools' = Append(seqno_tools, KeysOf(tcodes)[i])
            /\ UNCHANGED <<err, pc>>
    /\ UNCHANGED <<seqgen, motion, catalog, now, fileid, partnum, machineid, revisiondate,
                   revisiontime, controlleros, tcodes, number_of_sequences,
                   seq_gcode, seqno, gcode, run, first>>

\* lines 213-218: one pass of the for loop.
Wrapped_EndAfterIncrement(n, body) == <<SeqStart(n)>> \o body \o <<SeqEnd(n + 1)>>

Wrapped(n, body) == <<SeqStart(n)>> \o body \o <<SeqEnd(n)>>

GenerateMotion ==
    /\ pc = "sequences"
    /\ Len(seqno_tools) >= number_of_sequences
    /\ seqno <= Len(seqno_tools)
    /\ LET seqno_tool == seqno_tools[seqno]
           tool == Lookup(tcodes, seqno_tool)
       IN  \E sfm \in Uniform(tool.sfm), ipt \in Uniform(tool.ipt),
              shape \in 0..(Len(MotionList) - 1), size \in SizeDraws,
              cc \in CutcomDraws(tool), k \in KDraws :
              /\ Consume(MotionSites(cc), MotionValues(sfm, ipt, shape, size, cc, k))
              /\ seq_gcode' = seq_gcode \o Wrapped(seqno,
                     generate_random_motion(seqno_tool, tool, sfm, ipt, shape,
                                            size, cc, k))
    /\ seqno' = seqno + 1
    /\ UNCHANGED <<seqgen, motion, catalog, now, pc, err, fileid, partnum, machineid,
                   revisiondate, revisiontime, controlleros, tcodes,
                   number_of_sequences, seqno_tools, gcode, run, first>>

---------------------------------------------------------------------------
(* _generate_gcode *)

Percent == <<W("%", 0)>>

ProgramEnd == <<W("M", 30)>>

\* _generate_file_start
generate_file_start(os) == IF os = "grbl" THEN <<Percent>> ELSE <<>>

Meta(key, value) == <<W("(@@", 0), W(key, 0)>> \o value

\* _generate_header
generate_header ==
    << Meta("meta_fileid", <<W("num", fileid)>>),
       Meta("meta_partnum", partnum),
       Meta("meta_filenum", <<W("num", 1)>>),
       Meta("meta_revisionid", <<W("num", 100)>>),
       Meta("meta_revisiondate", revisiondate),
       Meta("meta_revisiontime", revisiontime),
       Meta("meta_authorid", <<W("num", 1)>>),
       Meta("meta_machineid", <<W("num", 1)>>),
       Meta("meta_controlleros", <<W(controlleros, 0)>>),
       <<W("G", 90), W("G", 94), W("G", 17), W("G", 49), W("G", 40), W("G", 80)>>,
       <<W("G", 20)>>,
       <<W("G", 28), W("G", 91), W("Z", 0)>>,
       <<W("G", 90)>> >>

\* f"N{start_block_num + i} {item}" for i, item in enumerate(with_nblock)
Numbered_FromOne(start_block_num, with_nblock) ==
    [i \in 1..Len(with_nblock) |-> <<W("N", start_block_num + i)>> \o with_nblock[i]]

Numbered(start_block_num, with_nblock) ==
    [i \in 1..Len(with_nblock) |->
        <<W("N", start_block_num + (i - 1))>> \o with_nblock[i]]

\* lines 224-232
Assemble_NoSentinel(no_nblock, with_nblock) ==
    no_nblock \o Numbered(Len(no_nblock) + 1, with_nblock)

Assemble(no_nblock, with_nblock) ==
    no_nblock \o Numbered(Len(no_nblock) + 1, with_nblock) \o <<Percent>>

GenerateGcode ==
    /\ pc = "sequences"
    /\ Len(seqno_tools) >= number_of_sequences
    /\ seqno > Len(seqno_tools)
    /\ gcode' = Assemble(generate_file_start(controlleros),
                         generate_header \o seq_gcode \o <<ProgramEnd>>)
    /\ pc' = "done"
    /\ UNCHANGED <<seqgen, motion, catalog, now, err, fileid, partnum, machineid, revisiondate,
                   revisiontime, controlleros, tcodes, number_of_sequences,
                   seqno_tools, seq_gcode, seqno, stream, cursor, run, first>>

---------------------------------------------------------------------------
(* A second run of the program on the same catalog, the random generator   *)
(* rewound to the start of the recorded stream, some time later.           *)

Rerun ==
    /\ pc = "done"
    /\ run = 1
    /\ run' = 2
    /\ first' = gcode
    /\ cursor' = 0
    /\ \E dt \in 0..MaxElapsed : now' = now + dt
    /\ pc' = "init"
    /\ err' = "none"
    /\ fileid' = 0
    /\ partnum' = <<>>
    /\ machineid' = 0
    /\ revisiondate' = <<>>
    /\ revisiontime' = <<>>
    /\ controlleros' = ""
    /\ tcodes' = <<>>
    /\ number_of_sequences' = 0
    /\ seqno_tools' = <<>>
    /\ seq_gcode' = <<>>
    /\ seqno' = 0
    /\ gcode' = <<>>
    /\ UNCHANGED <<seqgen, motion, catalog, stream>>

---------------------------------------------------------------------------
(* SeqGenerator used on its own: SeqGenerator(tcodeid, tcode_params)        *)
(* followed by generate_random_motion(), every draw over its whole range.  *)

\* A tool with wide ranges, beside the catalog's tools.
WideTool ==
    [diameter |-> 375,
     sfm |-> [min |-> 55, max |-> 79],
     ipt |-> [min |-> 112, max |-> 200],
     cutcom |-> TRUE]

SeqGenerators ==
    {[tcodeid |-> c, tcode_params |-> generate_random_tool(c)] : c \in Codes}
        \cup {[tcodeid |-> 999999, tcode_params |-> WideTool]}

InitMotion ==
    /\ catalog = <<>>
    /\ now = StartTime
    /\ pc = "motion"
    /\ err = "none"
    /\ fileid = 0
    /\ partnum = <<>>
    /\ machineid = 0
    /\ revisiondate = <<>>
    /\ revisiontime = <<>>
    /\ controlleros = ""
    /\ tcodes = <<>>
    /\ number_of_sequences = 0
    /\ seqno_tools = <<>>
    /\ seq_gcode = <<>>
    /\ seqno = 0
    /\ gcode = <<>>
    /\ stream = <<>>
    /\ cursor = 0
    /\ run = 1
    /\ first = <<>>
    /\ seqgen \in SeqGenerators
    /\ motion = <<>>

SynthesizeMotion ==
    /\ pc = "motion"
    /\ LET tool == seqgen.tcode_params
       IN  \E sfm \in UniformFine(tool.sfm), ipt \in UniformFine(tool.ipt),
              shape \in 0..(Len(MotionList) - 1), size \in SizeMin..SizeMax,
              cc \in CutcomDraws(tool), k \in 1..KMax :
              /\ Consume(MotionSites(cc), MotionValues(sfm, ipt, shape, size, cc, k))
              /\ motion' = generate_random_motion(seqgen.tcodeid, tool, sfm, ipt,
                                                  shape, size, cc, k)
    /\ pc' = "returned"
    /\ UNCHANGED <<seqgen, catalog, now, err, fileid, partnum, machineid,
                   revisiondate, revisiontime, controlleros, tcodes,
                   number_of_sequences, seqno_tools, seq_gcode, seqno, gcode,
                   run, first>>

NextMotion == SynthesizeMotion

SpecMotion == InitMotion /\ [][NextMotion]_vars

Next ==
    \/ Construct
    \/ GetTcodes
    \/ GetNumberOfSequences
    \/ StartSequences
    \/ FillTool
    \/ GenerateMotion
    \/ GenerateGcode

Spec == Init /\ [][Next]_vars

NextRerun == Next \/ Rerun

\* Two runs of the whole pipeline on a catalog that holds tools.
InitLoaded == Init /\ DOMAIN catalog # {}

SpecRerun == InitLoaded /\ [][NextRerun]_vars

---------------------------------------------------------------------------
(* Reading an assembled program *)

HasAddr(line) == Len(line) >= 1 /\ line[1].c = "N"

Addr(line) == line[1].v

Strip(line) == IF HasAddr(line) THEN Tail(line) ELSE line

Stripped(lines) == [i \in 1..Len(lines) |-> Strip(lines[i])]

IsAnnot(line, key) == Len(line) >= 2 /\ line[1].c = "(@@" /\ line[2].c = key

IsMarker(line) == IsAnnot(line, "seq_start") \/ IsAnnot(line, "seq_end")

StartsUpTo(lines, i) == Cardinality({j \in 1..i : IsAnnot(lines[j], "seq_start")})

EndsUpTo(lines, i) == Cardinality({j \in 1..i : IsAnnot(lines[j], "seq_end")})

\* Line i lies strictly between a seq_start and its seq_end.
Inside(lines, i) ==
    /\ ~IsMarker(lines[i])
    /\ StartsUpTo(lines, i) > EndsUpTo(lines, i)

IsCompLine(line) == \E j \in 1..Len(line) : line[j].c = "G" /\ line[j].v \in {40, 41, 42}

IsToolChange(line, code) == line = <<W("T", code), W("M", 6)>>

Program == Stripped(gcode)

Assembled == pc = "done"

Selected == pc \notin {"init", "tcodes"}

Planned == pc \notin {"init", "tcodes", "nseq"}

---------------------------------------------------------------------------
(* Claims *)

\* C1: in every assembled program the numbered block carries the addresses
\* p+1, p+2, ... in output order, p the number of preamble lines; neither
\* the preamble nor the closing sentinel carries an address.
C1_Numbering ==
    Assembled =>
        LET p == Len(generate_file_start(controlleros))
            L == Len(gcode)
        IN  /\ L >= p + 2
            /\ \A i \in 1..p : ~HasAddr(gcode[i])
            /\ ~HasAddr(gcode[L])
            /\ HasAddr(gcode[p + 1]) /\ Addr(gcode[p + 1]) = p + 1
            /\ \A i \in (p + 2)..(L - 1) :
                  HasAddr(gcode[i]) /\ Addr(gcode[i]) = Addr(gcode[i - 1]) + 1

C1_Witness ==
    /\ Assembled
    /\ number_of_sequences >= 2
    /\ Addr(gcode[Len(gcode) - 1]) > 50

\* C2: every selected tool code is the tool code of at least one planned
\* sequence: some sequence body holds that code's tool-change line.
C2_Coverage ==
    Assembled =>
        LET P == Program
        IN  \A t \in 1..Len(tcodes) :
                /\ \E j \in 1..Len(seqno_tools) : seqno_tools[j] = tcodes[t].key
                /\ \E i \in 1..Len(P) :
                      IsToolChange(P[i], tcodes[t].key) /\ Inside(P, i)

C2_Witness ==
    /\ Assembled
    /\ Len(tcodes) >= 2
    /\ number_of_sequences > Len(tcodes)

C4_BalancedMarkers ==
    Assembled =>
        SelectSeq(Program, IsMarker) =
            [i \in 1..(2 * number_of_sequences) |->
                IF i % 2 = 1 THEN <<W("(@@", 0), W("seq_start", (i + 1) \div 2)>>
                ELSE <<W("(@@", 0), W("seq_end", i \div 2)>>]

C4_Witness ==
    /\ Assembled
    /\ number_of_sequences = 3

\* C5: on an empty catalog the selection step fails at once with
\* InsufficientCatalogError; nothing is planned or assembled.
C5_EmptyCatalogFails ==
    (DOMAIN catalog = {} /\ Selected) =>
        (pc = "crashed" /\ err = "InsufficientCatalogError")

\* C6: the planner, given an empty selection, ends with EmptySelectionError
\* whatever count was sampled: it returns no empty sequence list and fails
\* with no other error.
C6_EmptySelectionFails ==
    (Len(tcodes) = 0 /\ pc \in {"done", "crashed"}) =>
        (pc = "crashed" /\ err = "EmptySelectionError")

\* C7: a sequence planned for a tool whose cutcom flag is false holds no
\* G41, G42 or G40 line between its seq_start and seq_end.
C7_CompensationGating ==
    Assembled =>
        LET P == Program
        IN  \A i \in 1..Len(P) :
                (IsCompLine(P[i]) /\ Inside(P, i))
                => Lookup(tcodes, seqno_tools[StartsUpTo(P, i)]).cutcom

C7_Witness ==
    /\ Assembled
    /\ LET P == Program
       IN  /\ \E i \in 1..Len(P) :
                 /\ Inside(P, i)
                 /\ ~Lookup(tcodes, seqno_tools[StartsUpTo(P, i)]).cutcom
           /\ \E i \in 1..Len(P) : Inside(P, i) /\ IsCompLine(P[i])

\* C8: a second run on the same catalog that receives the same random draws
\* assembles the same program, line for line, whenever it executes.
C8_Determinism ==
    (run = 2 /\ Assembled) => gcode = first

\* C9: for a non-empty catalog and drawn size d the selection holds exactly
\* min(d, |catalog|) distinct codes, all keys of the catalog, each with the
\* record the catalog gives it; a one-tool catalog yields a selection of one.
DrawnSize == stream[CHOOSE i \in 1..Len(stream) : stream[i].site = "num_keys"].v

C9_Selection ==
    (Selected /\ DOMAIN catalog # {}) =>
        LET n == Cardinality(DOMAIN catalog)
        IN  /\ Len(tcodes) = (IF DrawnSize <= n THEN DrawnSize ELSE n)
            /\ \A i, j \in 1..Len(tcodes) : tcodes[i].key = tcodes[j].key => i = j
            /\ \A i \in 1..Len(tcodes) :
                  /\ tcodes[i].key \in DOMAIN catalog
                  /\ tcodes[i].rec = catalog[tcodes[i].key]
            /\ n = 1 => Len(tcodes) = 1

C9_Witness ==
    /\ Selected
    /\ Cardinality(DOMAIN catalog) = 3
    /\ Len(tcodes) = 2
    /\ tcodes[1].key > tcodes[2].key

\* C10: the assembled program is the line "%", then the numbered block (the
\* 9 metadata annotations and the 4 startup lines in fixed order, the
\* sequences' lines in planning order, the single line M30), then the
\* unnumbered closing "%": 1 + 13 + |body| + 1 + 1 lines.
MetaKeys ==
    <<"meta_fileid", "meta_partnum", "meta_filenum", "meta_revisionid",
      "meta_revisiondate", "meta_revisiontime", "meta_authorid",
      "meta_machineid", "meta_controlleros">>

StartupLines ==
    << <<W("G", 90), W("G", 94), W("G", 17), W("G", 49), W("G", 40), W("G", 80)>>,
       <<W("G", 20)>>,
       <<W("G", 28), W("G", 91), W("Z", 0)>>,
       <<W("G", 90)>> >>

C10_Layout ==
    Assembled =>
        LET L == Len(gcode)
            B == Len(seq_gcode)
            P == Program
        IN  /\ L = 1 + 13 + B + 1 + 1
            /\ gcode[1] = <<W("%", 0)>>
            /\ gcode[L] = <<W("%", 0)>>
            /\ \A i \in 2..(L - 1) : HasAddr(gcode[i])
            /\ \A i \in 1..9 : IsAnnot(P[1 + i], MetaKeys[i])
            /\ SubSeq(P, 11, 14) = StartupLines
            /\ SubSeq(P, 15, 14 + B) = seq_gcode
            /\ P[L - 1] = <<W("M", 30)>>

C10_Witness ==
    /\ Assembled
    /\ Len(seq_gcode) > 40

---------------------------------------------------------------------------
(* Reading one sequence out of a program.                                  *)

HasSequence(lines, j) ==
    \E i \in 1..Len(lines) :
        /\ lines[i] = SeqStart(j)
        /\ \E e \in (i + 1)..Len(lines) : lines[e] = SeqEnd(j)

StartAt(lines, j) == CHOOSE i \in 1..Len(lines) : lines[i] = SeqStart(j)

EndAt(lines, j) == CHOOSE e \in 1..Len(lines) : lines[e] = SeqEnd(j)

\* The lines strictly between seq_start = j and seq_end = j.
Body(lines, j) == SubSeq(lines, StartAt(lines, j) + 1, EndAt(lines, j) - 1)

MarkerLines(lines) == {i \in 1..Len(lines) : IsMarker(lines[i])}

\* Sequences 1..count are all there, each seq_start before its seq_end.
HasSequences(lines, count) ==
    LET M == MarkerLines(lines)
    IN  \A j \in 1..count :
            \E i, e \in M : i < e /\ lines[i] = SeqStart(j) /\ lines[e] = SeqEnd(j)

\* Their bodies, by ordinal.
Bodies(lines, count) ==
    LET M == MarkerLines(lines)
    IN  [j \in 1..count |->
            SubSeq(lines, (CHOOSE i \in M : lines[i] = SeqStart(j)) + 1,
                          (CHOOSE e \in M : lines[e] = SeqEnd(j)) - 1)]

IsToolLine(line) == Len(line) >= 1 /\ line[1].c = "T"

ToolLines(body) == {i \in 1..Len(body) : IsToolLine(body[i])}

ToolsIn(body) == {body[i][1].v : i \in ToolLines(body)}

\* C11: with n tools selected, sequence j of the first n changes to the j-th
\* selected code in the selection's own order, so each selected code is used
\* once among them; every later sequence changes to some selected code.
C11_AssignmentOrder ==
    Assembled =>
        LET P == Program
            n == Len(tcodes)
            keys == {tcodes[i].key : i \in 1..n}
        IN  /\ HasSequences(P, number_of_sequences)
            /\ LET body == Bodies(P, number_of_sequences)
                   used == [j \in 1..number_of_sequences |-> ToolsIn(body[j])]
               IN  /\ \A j \in 1..number_of_sequences :
                         /\ Cardinality(used[j]) = 1
                         /\ j <= n => used[j] = {tcodes[j].key}
                         /\ j > n => used[j] \subseteq keys
                   /\ \A h, j \in 1..n : used[h] = used[j] => h = j

C11_Witness ==
    /\ Assembled
    /\ Len(tcodes) = 2
    /\ number_of_sequences > Len(tcodes)
    /\ tcodes[1].key > tcodes[2].key
    /\ ToolsIn(Body(Program, 3)) = {tcodes[1].key}

---------------------------------------------------------------------------
(* Reading the order of the draws out of the stream.                       *)

SelectorSites == {"num_keys", "sample"}

ParameterSites == {"sfm", "ipt", "size", "cutcom"}

SequenceSites == ParameterSites \cup {"motion", "k"}

IsSequenceDraw(d) == d.site \in SequenceSites

\* The draws made by the sequences, in the order made.
SequenceDraws == SelectSeq(stream, IsSequenceDraw)

\* Every sequence opens with its surface-speed draw: the sequence a draw
\* belongs to is the number of surface-speed draws made up to it.
GroupOf(draws, i) == Cardinality({h \in 1..i : draws[h].site = "sfm"})

SelectorFirst ==
    \A i, j \in 1..Len(stream) :
        (stream[i].site \in SelectorSites /\ stream[j].site \in SequenceSites) => i < j

---------------------------------------------------------------------------
(* Reading the parameters out of a body returned by SeqGenerator.          *)

Returned == pc = "returned"

DrawAt(site) == stream[CHOOSE i \in 1..Len(stream) : stream[i].site = site].v

WordsOf(line, c) == {line[j].v : j \in {h \in 1..Len(line) : line[h].c = c}}

HasWord(line, c) == WordsOf(line, c) # {}

SpindleSpeeds(body) == UNION {WordsOf(body[i], "S") : i \in 1..Len(body)}

\* The feed of the contour: the F words of the lines that do not move Z.
ContourFeeds(body) ==
    UNION {WordsOf(body[i], "F") : i \in {h \in 1..Len(body) : ~HasWord(body[h], "Z")}}

Abs(x) == IF x < 0 THEN -x ELSE x

\* q is p / unit to the nearest integer (p, unit exact; unit > 0).
Nearest(q, p, unit) == 2 * Abs(q * unit - p) <= unit

\* C13: for a tool whose two ranges have min <= max, the surface speed drawn
\* lies in the sfm range and the feed per tooth drawn lies in the ipt range;
\* the spindle speed of the body is surface speed * 3.82 / diameter to two
\* decimals, and its feedrate is feed per tooth * that rounded spindle speed
\* to two decimals; 100 and 0.01 with diameter 0.5 give 764.0 and 7.64.
C13_RangeRespect ==
    LET tool == seqgen.tcode_params
    IN  (Returned /\ tool.sfm.min <= tool.sfm.max /\ tool.ipt.min <= tool.ipt.max) =>
            LET sfm == DrawAt("sfm")
                ipt == DrawAt("ipt")
            IN  /\ tool.sfm.min <= sfm /\ sfm <= tool.sfm.max
                /\ tool.ipt.min <= ipt /\ ipt <= tool.ipt.max
                /\ \E rpm \in SpindleSpeeds(motion), feedrate \in ContourFeeds(motion) :
                      /\ SpindleSpeeds(motion) = {rpm}
                      /\ ContourFeeds(motion) = {feedrate}
                      /\ Nearest(rpm, sfm * 382 * 1000, tool.diameter)
                      /\ Nearest(feedrate, ipt * rpm, 10000)
                      /\ (sfm = 100 /\ ipt = 100 /\ tool.diameter = 500) =>
                            (rpm = 76400 /\ feedrate = 764)

\* A returned body of a tool with two proper ranges, whose feedrate differs
\* from the one the unrounded spindle speed would give.
C13_Witness ==
    /\ Returned
    /\ LET tool == seqgen.tcode_params
           sfm == DrawAt("sfm")
           ipt == DrawAt("ipt")
       IN  /\ tool.sfm.min < tool.sfm.max
           /\ tool.ipt.min < tool.ipt.max
           /\ \E feedrate \in ContourFeeds(motion) :
                 ~Nearest(feedrate, ipt * sfm * 382, 10 * tool.diameter)


\* Lines that move the tool.
IsMotionLine(line) == WordsOf(line, "G") \cap {0, 1, 2, 3} # {}

MotionLines(body) == {i \in 1..Len(body) : IsMotionLine(body[i])}

IsSpindleStart(line) == Len(line) = 2 /\ line[1].c = "S" /\ line[2] = W("M", 3)

IsSfmDraw(d) == d.site = "sfm"

\* The surface speed drawn for sequence j.
SfmOf(j) == SelectSeq(stream, IsSfmDraw)[j].v

\* The spindle-start line carries the spindle speed of sequence j.
CarriesSpindleSpeed(line, j) ==
    /\ IsSpindleStart(line)
    /\ Nearest(line[1].v, SfmOf(j) * 382 * 1000, catalog[seqno_tools[j]].diameter)

OneToolChangeBeforeMotion(body) ==
    /\ Cardinality(ToolLines(body)) = 1
    /\ \A t \in ToolLines(body), m \in MotionLines(body) : t < m

\* C14 as stated: in every sequence the line directly after seq_start is the
\* tool change to the sequence's tool, the next line starts the spindle at
\* the sequence's spindle speed, and the body has one tool-change line, before
\* every motion line.
C14_ToolChangeFirst ==
    Assembled =>
        LET P == Program
            body == Bodies(P, number_of_sequences)
        IN  /\ HasSequences(P, number_of_sequences)
            /\ \A j \in 1..number_of_sequences :
                   LET B == body[j]
                   IN  /\ Len(B) >= 2
                       /\ IsToolChange(B[1], seqno_tools[j])
                       /\ CarriesSpindleSpeed(B[2], j)
                       /\ OneToolChangeBeforeMotion(B)

\* C14, amended: in every sequence the line directly after seq_start is the
\* seq_name annotation of the shape; the second line of the body is the tool
\* change to the sequence's tool and the third starts the spindle at the
\* sequence's spindle speed; the body has one tool-change line, before every
\* motion line.
C14_ToolChangeAfterName ==
    Assembled =>
        LET P == Program
            body == Bodies(P, number_of_sequences)
        IN  /\ HasSequences(P, number_of_sequences)
            /\ \A j \in 1..number_of_sequences :
                   LET B == body[j]
                   IN  /\ Len(B) >= 3
                       /\ IsAnnot(B[1], "seq_name")
                       /\ IsToolChange(B[2], seqno_tools[j])
                       /\ CarriesSpindleSpeed(B[3], j)
                       /\ OneToolChangeBeforeMotion(B)

C14_Witness ==
    /\ Assembled
    /\ number_of_sequences >= 2
    /\ seqno_tools[1] # seqno_tools[2]
    /\ LET P == Program
       IN  /\ Body(P, 1)[1][3].c = "Draw Square"
           /\ Body(P, 2)[1][3].c = "Draw Oval"
           /\ IsToolChange(Body(P, 2)[2], seqno_tools[2])

CompOnLines(body) ==
    {i \in 1..Len(body) : body[i] \in {<<W("G", 41)>>, <<W("G", 42)>>}}

CompOffLines(body) == {i \in 1..Len(body) : body[i] = <<W("G", 40)>>}

\* The feed move down to Z 0.0.
PlungeLines(body) ==
    {i \in 1..Len(body) : WordsOf(body[i], "G") = {1} /\ WordsOf(body[i], "Z") = {0}}

\* The moves in the plane after the plunge.
ContourMoves(body) ==
    {i \in MotionLines(body) :
        /\ HasWord(body[i], "X") \/ HasWord(body[i], "Y")
        /\ \E p \in PlungeLines(body) : p < i}

ArcLines(body) == {i \in 1..Len(body) : WordsOf(body[i], "G") \cap {2, 3} # {}}

\* The retract arc is the last arc of the body.
RetractArc(body) == CHOOSE i \in ArcLines(body) : \A h \in ArcLines(body) : h <= i

\* C15: a returned body, square or oval, has a G40 line exactly when it has a
\* G41 or G42 line, and then one of each: the G41/G42 line after the plunge
\* move and before every contour move, the G40 line after the retract arc;
\* with or without them the last line of the body is G0 Z3.0.
C15_CompensationPairing ==
    Returned =>
        LET B == motion
            on == CompOnLines(B)
            off == CompOffLines(B)
        IN  /\ (off # {}) <=> (on # {})
            /\ Cardinality(on) <= 1
            /\ Cardinality(off) <= 1
            /\ Cardinality(PlungeLines(B)) = 1
            /\ ContourMoves(B) # {}
            /\ ArcLines(B) # {}
            /\ \A i \in on :
                  /\ \A p \in PlungeLines(B) : p < i
                  /\ \A c \in ContourMoves(B) : i < c
            /\ \A i \in off : RetractArc(B) < i
            /\ Len(B) >= 1
            /\ B[Len(B)] = <<W("G", 0), W("Z", 300)>>
            /\ \A i \in 1..(Len(B) - 1) : ~HasWord(B[i], "Z") \/ i < RetractArc(B)

C15_Witness ==
    /\ Returned
    /\ MotionList[DrawAt("motion") + 1] = "oval"
    /\ CompOnLines(motion) # {}
    /\ motion[CHOOSE i \in CompOnLines(motion) : TRUE] = <<W("G", 42)>>
    /\ Len(motion) - 1 \in CompOffLines(motion)


---------------------------------------------------------------------------
(* Tracking the tool in the plane, move by move.                           *)

WordOr(line, c, prev) ==
    IF HasWord(line, c) THEN CHOOSE v \in WordsOf(line, c) : TRUE ELSE prev

RECURSIVE PosAfter(_, _)
\* The position after line i: an axis a move does not name keeps its value.
PosAfter(body, i) ==
    IF i = 0 THEN [x |-> 0, y |-> 0]
    ELSE LET prev == PosAfter(body, i - 1)
         IN  IF IsMotionLine(body[i])
             THEN [x |-> WordOr(body[i], "X", prev.x), y |-> WordOr(body[i], "Y", prev.y)]
             ELSE prev

SquaredDistance(p, q) == (p.x - q.x) * (p.x - q.x) + (p.y - q.y) * (p.y - q.y)

\* The center of the arc on line i: its start point plus (I, J).
CenterOf(body, i) ==
    LET start == PosAfter(body, i - 1)
    IN  [x |-> start.x + WordOr(body[i], "I", 0), y |-> start.y + WordOr(body[i], "J", 0)]

LeadInArc(body) == CHOOSE i \in ArcLines(body) : \A h \in ArcLines(body) : i <= h

LastContourArc(body) ==
    CHOOSE i \in ArcLines(body) \ {RetractArc(body)} :
        \A h \in ArcLines(body) \ {RetractArc(body)} : h <= i

\* Where the lead-in arc has to end: (size / 5, 0) on the square, (0, 0) on
\* the oval.
ContourStart(shape, size) ==
    IF shape = "square" THEN [x |-> size * 20, y |-> 0] ELSE [x |-> 0, y |-> 0]

\* C16: in a returned body of any size, square or oval, the center of every
\* arc (start point + (I, J)) is as far from the arc's start point as from
\* its commanded end point, and the last contour arc before the retract arc
\* ends where the lead-in arc ended: (size / 5, 0) on the square, (0, 0) on
\* the oval.
C16_ArcConsistency ==
    Returned =>
        LET B == motion
            shape == MotionList[DrawAt("motion") + 1]
            size == DrawAt("size")
        IN  /\ size \in 5..20
            /\ shape \in {"square", "oval"}
            /\ Cardinality(ArcLines(B)) >= 3
            /\ \A i \in ArcLines(B) :
                  /\ HasWord(B[i], "I") /\ HasWord(B[i], "J")
                  /\ SquaredDistance(CenterOf(B, i), PosAfter(B, i - 1))
                        = SquaredDistance(CenterOf(B, i), PosAfter(B, i))
                  /\ SquaredDistance(CenterOf(B, i), PosAfter(B, i)) > 0
            /\ PosAfter(B, LeadInArc(B)) = ContourStart(shape, size)
            /\ PosAfter(B, LastContourArc(B)) = PosAfter(B, LeadInArc(B))
            /\ LeadInArc(B) < LastContourArc(B)

C16_Witness ==
    /\ Returned
    /\ MotionList[DrawAt("motion") + 1] = "oval"
    /\ DrawAt("size") = 7
    /\ Cardinality(ArcLines(motion)) = 6
    /\ PosAfter(motion, LastContourArc(motion)) = [x |-> 0, y |-> 0]
    /\ PosAfter(motion, LastContourArc(motion) - 1) = [x |-> -350, y |-> 350]

---------------------------------------------------------------------------
IsMotionDraw(d) == d.site = "motion"

\* The shape families the sequences drew, in order.
ShapesDrawn ==
    LET draws == SelectSeq(stream, IsMotionDraw)
    IN  [i \in 1..Len(draws) |-> MotionList[draws[i].v + 1]]

====
